---- MODULE Spec2Model ----
(***************************************************************************)
(* Lab.experiment of sinvoker-engine: the experiment lifecycle controller  *)
(* (src/src/Lab.py) run against the Universe and Agent contracts.          *)
(*                                                                         *)
(* Time is counted in tenths of a second on the universe clock             *)
(* (universe.get_time() is 0 at construction); Second tenths make the 1e9  *)
(* nanoseconds the code divides by.                                        *)
(***************************************************************************)
EXTENDS Integers, Sequences, FiniteSets, TLC

VARIABLES
    parameters,          \* the arguments of experiment (Lab.py:22-40)
    pc,                  \* the controller's position in experiment
    error,               \* the exception experiment raised, "none" otherwise
    built,               \* a Universe has been constructed (Lab.py:46)
    now,                 \* universe.get_time(), in tenths of a second
    space,               \* universe.space: cell -> whether an agent holds it
    population,          \* universe.population: agent id -> agent, in insertion order
    population_lock,     \* holder of universe.population_lock, "free" otherwise
    freeze,              \* universe.freeze.is_set()
    culmination,         \* universe.culmination, None until the drain ends
    positions,           \* the local list of _invoke_initial_population
    stack_depth,         \* frames of _generate_position on the call stack
    start_barrier,       \* the threading.Barrier of the initial cohort
    timings,             \* the timings dict of experiment
    non_agents_threads,  \* the thread-count baseline (Lab.py:61)
    cursor,              \* agents already visited by the loop of Lab.py:151-157
    early_stop,          \* the local early_stop (Lab.py:66, 79)
    start_running,       \* the local start_running (Lab.py:67)
    simulation_duration, \* the local simulation_duration (Lab.py:69)
    i,                   \* the loop variable of the run phase (Lab.py:70)
    wake,                \* the time the controller's current sleep ends
    active_agents,       \* the local active_agents (Lab.py:88, 96)
    result,              \* the keys of the dict experiment returned, {} before
    hist                 \* the last tick of the run phase: its number, when it began
                         \* and ended (since start_running), how long it slept
                         \* and whether any tick so far began after its slot's
                         \* end; read by the properties only

vars == <<parameters, pc, error, built, now, space, population, population_lock,
          freeze, culmination, positions, stack_depth, start_barrier, timings,
          non_agents_threads, cursor, early_stop, start_running, simulation_duration, i,
          wake, active_agents, result, hist>>

\* ---------------------------------------------------------------- bounds
MaxHeight == 2
MaxWidth == 2
MaxPop == 3
MaxDur == 2
\* sys.getrecursionlimit() scaled down: frames of _generate_position allowed
RecursionLimit == 3
\* a scheduling delay before a clock read: none, or this many tenths of a second
Overrun == 13
Delays == {0, Overrun}
\* the clock is followed for this many polls of the drain loop; later polls leave
\* it where it is
MaxPolls == 2

\* ---------------------------------------------------------------- constants
Second == 10
PollWait == 1
MainThreads == 1
None == -1

\* ---------------------------------------------------------------- helpers
Max(a, b) == IF a >= b THEN a ELSE b
Min(a, b) == IF a <= b THEN a ELSE b

\* randint(0, height - 1), randint(0, width - 1)
InBounds(h, w) == (0 .. h - 1) \X (0 .. w - 1)

\* new_pos not in positions: Position equality is by (y, x)
NotIn(new_pos, ps) == \A k \in 1 .. Len(ps) : ps[k] # new_pos

\* np.sum(universe.space != None). The controller reads of a cell only whether it
\* is None, so space keeps that and not which agent the cell refers to.
Occupied == Cardinality({c \in DOMAIN space : space[c]})

Alive(st) == st \in {"STARTED", "WAITING_AT_BARRIER", "RUNNING", "IN_ROUND"}

AliveAgents == {a \in 1 .. Len(population) : Alive(population[a].st)}

\* threading.active_count()
ActiveCount == MainThreads + Cardinality(AliveAgents)

\* int(x / 1e9) for a clock value x >= 0
WholeSeconds(x) == x \div Second

Raise(e) == /\ pc' = "raised"
            /\ error' = e

\* ---------------------------------------------------------------- initial state
Arguments(heights, widths, durations) ==
    [height : heights,
     width : widths,
     initial_population_count : 0 .. MaxPop,
     max_total_duration : durations,
     max_simulation_duration : durations]

Start ==
    /\ pc = "experiment"
    /\ error = "none"
    /\ built = FALSE
    /\ now = 0
    /\ space = [c \in {} |-> FALSE]
    /\ population = <<>>
    /\ population_lock = "free"
    /\ freeze = FALSE
    /\ culmination = None
    /\ positions = <<>>
    /\ stack_depth = 0
    /\ start_barrier = [parties |-> None, n_waiting |-> 0]
    /\ timings = [init_universe |-> None, invoke_initial_population |-> None,
                  start_initial_population |-> None, run |-> None, stop |-> None]
    /\ non_agents_threads = None
    /\ cursor = 0
    /\ early_stop = FALSE
    /\ start_running = None
    /\ simulation_duration = None
    /\ i = None
    /\ wake = 0
    /\ active_agents = None
    /\ result = {}
    /\ hist = [tick |-> 0, began |-> None, slept |-> None, ended |-> None,
               overran |-> FALSE]

\* the whole experiment, on grids of one row
Init ==
    /\ parameters \in Arguments({1}, 1 .. MaxWidth, 0 .. MaxDur)
    /\ Start

\* the placement of the initial population, on grids of rows and columns
InitPlace ==
    /\ parameters \in Arguments(1 .. MaxHeight, 1 .. MaxWidth, {0})
    /\ Start

\* ---------------------------------------------------------------- experiment: set-up
\* the bound of the assertion off by one
ValidConfigurationOffByOne(p) == p.initial_population_count <= p.height * p.width + 1

\* Lab.py:31  assert initial_population_count <= height * width
ValidConfiguration(p) == p.initial_population_count <= p.height * p.width

CheckConfiguration ==
    /\ pc = "experiment"
    /\ IF ValidConfiguration(parameters)
       THEN pc' = "universe" /\ error' = error
       ELSE Raise("AssertionError")
    /\ UNCHANGED <<parameters, built, now, space, population, population_lock, freeze,
                   culmination, positions, stack_depth, start_barrier, timings,
                   non_agents_threads, cursor, early_stop, start_running, simulation_duration,
                   i, wake, active_agents, result, hist>>

\* Lab.py:46-47  universe = Universe(height, width); timings["init_universe"]
CreateUniverse ==
    /\ pc = "universe"
    /\ built' = TRUE
    /\ space' = [c \in InBounds(parameters.height, parameters.width) |-> FALSE]
    /\ population' = <<>>
    /\ population_lock' = "free"
    /\ freeze' = FALSE
    /\ culmination' = None
    /\ now' = 0
    /\ timings' = [timings EXCEPT !.init_universe = now']
    /\ wake' = now'
    /\ pc' = "positions"
    /\ UNCHANGED <<parameters, error, positions, stack_depth, start_barrier,
                   non_agents_threads, cursor, early_stop, start_running, simulation_duration,
                   i, active_agents, result, hist>>

\* a draw compared with the last position only
AcceptsUnlessLast(new_pos, ps) == Len(ps) = 0 \/ ps[Len(ps)] # new_pos

\* Lab.py:109  the test that accepts a draw
Accepts(new_pos, ps) == NotIn(new_pos, ps)

\* Lab.py:107-112 inside the loop of Lab.py:126-132: one draw of _generate_position.
\* A rejected draw calls _generate_position again, one frame deeper.
GeneratePosition ==
    /\ pc = "positions"
    /\ Len(positions) < parameters.initial_population_count
    /\ LET frame == IF stack_depth = 0 THEN 1 ELSE stack_depth
       IN \E new_pos \in InBounds(parameters.height, parameters.width) :
            IF Accepts(new_pos, positions)
            THEN /\ positions' = Append(positions, new_pos)
                 /\ stack_depth' = 0
                 /\ UNCHANGED <<pc, error>>
            ELSE IF frame + 1 > RecursionLimit
                 THEN /\ Raise("RecursionError")
                      /\ UNCHANGED <<positions, stack_depth>>
                 ELSE /\ stack_depth' = frame + 1
                      /\ UNCHANGED <<positions, pc, error>>
    /\ UNCHANGED <<parameters, built, now, space, population, population_lock, freeze,
                   culmination, start_barrier, timings, non_agents_threads, cursor,
                   early_stop, start_running, simulation_duration, i, wake, active_agents, result,
                   hist>>

\* a barrier that waits for one agent more than is created
PartiesOneMore == parameters.initial_population_count + 1

\* a barrier sized one party short
PartiesOneShort == parameters.initial_population_count - 1

\* Lab.py:137  start_barrier = threading.Barrier(parties=initial_population_count)
Parties == parameters.initial_population_count

CreateBarrier ==
    /\ pc = "positions"
    /\ Len(positions) = parameters.initial_population_count
    /\ start_barrier' = [parties |-> Parties, n_waiting |-> 0]
    /\ pc' = "invoke"
    /\ UNCHANGED <<parameters, error, built, now, space, population, population_lock,
                   freeze, culmination, positions, stack_depth, timings,
                   non_agents_threads, cursor, early_stop, start_running, simulation_duration,
                   i, wake, active_agents, result, hist>>

\* Agent.__init__: the new agent's fields. gated: it was given a start_barrier.
NewAgent(generation, gated, st) ==
    [st |-> st, generation |-> generation, death_date |-> None, gated |-> gated,
     stop |-> FALSE]

\* Agent.__init__: the new agent registers itself in universe.population under
\* population_lock and takes the cell of its initial_position in universe.space.
Register(agent, initial_position) ==
    /\ population_lock = "free"
    /\ population' = Append(population, agent)
    /\ space' = [space EXCEPT ![initial_position] = TRUE]

\* Lab.py:138-147  Agent(universe, initial_position=pos, generation=0, ...)
InvokeAgent ==
    /\ pc = "invoke"
    /\ Len(population) < Len(positions)
    /\ Register(NewAgent(0, TRUE, "CREATED"), positions[Len(population) + 1])
    /\ UNCHANGED <<parameters, pc, error, built, now, population_lock, freeze,
                   culmination, positions, stack_depth, start_barrier, timings,
                   non_agents_threads, cursor, early_stop, start_running, simulation_duration,
                   i, wake, active_agents, result, hist>>

\* Lab.py:54-58  _invoke_initial_population returns (its local positions is gone);
\* assert np.sum(universe.space != None) == initial_population_count
AssertUnique ==
    /\ pc = "invoke"
    /\ Len(population) = Len(positions)
    /\ IF Occupied = parameters.initial_population_count
       THEN /\ \E d \in Delays : now' = now + d
            /\ timings' = [timings EXCEPT !.invoke_initial_population = now']
            /\ wake' = now'
            /\ pc' = "start"
            /\ positions' = <<>>
            /\ error' = error
       ELSE /\ Raise("AssertionError")
            /\ UNCHANGED <<now, timings, wake, positions>>
    /\ UNCHANGED <<parameters, built, space, population, population_lock, freeze,
                   culmination, stack_depth, start_barrier,
                   non_agents_threads, cursor, early_stop, start_running, simulation_duration,
                   i, active_agents, result, hist>>

\* a with block that leaves the lock held at its end
UnlockForgotten(lock) == lock

\* Lab.py:150, 160  the end of `with universe.population_lock:` by its holder
Unlock(lock) == IF lock = "controller" THEN "free" ELSE lock

\* ---------------------------------------------------------------- experiment: start
\* Lab.py:61 and 150  the baseline, then population_lock is taken for the loop
BeginStart ==
    /\ pc = "start"
    /\ population_lock = "free"
    /\ non_agents_threads' = ActiveCount
    /\ population_lock' = "controller"
    /\ cursor' = 0
    /\ pc' = "starting"
    /\ UNCHANGED <<parameters, error, built, now, space, population, freeze,
                   culmination, positions, stack_depth, start_barrier, timings,
                   early_stop, start_running, simulation_duration, i, wake,
                   active_agents, result, hist>>

\* Lab.py:151-157  agent.start() for the next agent of population.values()
StartAgent ==
    /\ pc = "starting"
    /\ cursor < Len(population)
    /\ population' = [population EXCEPT ![cursor + 1].st = "STARTED"]
    /\ cursor' = cursor + 1
    /\ UNCHANGED <<parameters, pc, error, built, now, space, population_lock, freeze,
                   culmination, positions, stack_depth, start_barrier, timings,
                   non_agents_threads, early_stop, start_running, simulation_duration,
                   i, wake, active_agents, result, hist>>

\* Lab.py:150 (the with block ends) and 63
EndStart ==
    /\ pc = "starting"
    /\ cursor = Len(population)
    /\ population_lock' = Unlock(population_lock)
    /\ timings' = [timings EXCEPT !.start_initial_population = now]
    /\ pc' = "run"
    /\ UNCHANGED <<parameters, error, built, now, wake, space, population, freeze, culmination,
                   positions, stack_depth, start_barrier, non_agents_threads, cursor,
                   early_stop, start_running, simulation_duration, i, active_agents,
                   result, hist>>

\* ---------------------------------------------------------------- experiment: run
\* a duration that forgets the seconds already spent before the run phase
SimulationDurationOfWholeBudget(p, start) ==
    Min(p.max_total_duration, p.max_simulation_duration)

\* Lab.py:68-69
SimulationDuration(p, start) ==
    Min(p.max_total_duration - Max(0, WholeSeconds(start)), p.max_simulation_duration)

\* Lab.py:66-70  the locals of the run phase; range(simulation_duration, 0, -1)
BeginRun ==
    /\ pc = "run"
    /\ early_stop' = FALSE
    /\ start_running' = now
    /\ simulation_duration' = SimulationDuration(parameters, now)
    /\ i' = simulation_duration'
    /\ pc' = "tick"
    /\ UNCHANGED <<parameters, error, built, now, space, population, population_lock,
                   freeze, culmination, positions, stack_depth, start_barrier, timings,
                   non_agents_threads, cursor, wake, active_agents, result, hist>>

\* a sleep of one second whatever time the tick has used
SleepDurationFixed(sd, k, t) == Second

\* Lab.py:82  max(1 + simulation_duration - i - t, 0), t the seconds since start_running
SleepDuration(sd, k, t) == Max((1 + sd - k) * Second - t, 0)

\* Lab.py:70  the range is exhausted
EndOfTicks ==
    /\ pc = "tick"
    /\ now >= wake
    /\ i <= 0
    /\ pc' = "run_end"
    /\ UNCHANGED <<parameters, error, built, now, space, population, population_lock,
                   freeze, culmination, positions, stack_depth, start_barrier, timings,
                   non_agents_threads, cursor, early_stop, start_running,
                   simulation_duration, i, wake, active_agents, result, hist>>

\* a test that takes the last agent thread for none
ExtinctButOne(count, baseline) == count <= baseline + 1

\* Lab.py:76  threading.active_count() <= non_agents_threads
Extinct(count, baseline) == count <= baseline

\* Lab.py:76-80  every agent thread has ended
EarlyStop ==
    /\ pc = "tick"
    /\ now >= wake
    /\ i > 0
    /\ Extinct(ActiveCount, non_agents_threads)
    /\ early_stop' = TRUE
    /\ pc' = "run_end"
    /\ UNCHANGED <<parameters, error, built, now, space, population, population_lock,
                   freeze, culmination, positions, stack_depth, start_barrier, timings,
                   non_agents_threads, cursor, start_running, simulation_duration, i,
                   wake, active_agents, result, hist>>

\* Lab.py:81-82  t is read and the controller sleeps to the end of the tick
TickSleep ==
    /\ pc = "tick"
    /\ now >= wake
    /\ i > 0
    /\ ~Extinct(ActiveCount, non_agents_threads)
    /\ \E d \in Delays : now' = now + d
    /\ LET t == now' - start_running
           dur == SleepDuration(simulation_duration, i, t)
       IN /\ wake' = now' + dur
          /\ hist' = [tick |-> 1 + simulation_duration - i, began |-> t, slept |-> dur,
                      ended |-> t + dur,
                      overran |-> hist.overran \/ t > (1 + simulation_duration - i) * Second]
    /\ i' = i - 1
    /\ UNCHANGED <<parameters, pc, error, built, space, population, population_lock,
                   freeze, culmination, positions, stack_depth, start_barrier, timings,
                   non_agents_threads, cursor, early_stop, start_running,
                   simulation_duration, active_agents, result>>

\* time.sleep: the clock moves on while the controller sleeps
Elapse ==
    /\ now < wake
    /\ now' = wake
    /\ UNCHANGED <<parameters, pc, error, built, space, population, population_lock,
                   freeze, culmination, positions, stack_depth, start_barrier, timings,
                   non_agents_threads, cursor, early_stop, start_running,
                   simulation_duration, i, wake, active_agents, result, hist>>

\* Lab.py:83
RecordRun ==
    /\ pc = "run_end"
    /\ timings' = [timings EXCEPT !.run = now]
    /\ pc' = "stop"
    /\ UNCHANGED <<parameters, error, built, now, wake, space, population, population_lock,
                   freeze, culmination, positions, stack_depth, start_barrier,
                   non_agents_threads, cursor, early_stop, start_running,
                   simulation_duration, i, active_agents, result, hist>>

\* ---------------------------------------------------------------- experiment: stop
\* a set() that is lost
EventSetLost(flag) == flag

\* Lab.py:86  threading.Event.set()
EventSet(flag) == TRUE

\* Lab.py:86-88
SignalFreeze ==
    /\ pc = "stop"
    /\ freeze' = EventSet(freeze)
    /\ active_agents' = ActiveCount - non_agents_threads
    /\ pc' = "drain"
    /\ UNCHANGED <<parameters, error, built, now, space, population, population_lock,
                   culmination, positions, stack_depth, start_barrier, timings,
                   non_agents_threads, cursor, early_stop, start_running,
                   simulation_duration, i, wake, result, hist>>

\* a drain loop that still waits when the count is zero
DrainingAtZero(n) == n >= 0

\* a drain loop that stops one agent early
DrainingButOne(n) == n > 1

\* Lab.py:89  the condition of the drain loop
Draining(n) == n > 0

\* Lab.py:89-95  sleep(1e-1)
DrainWait ==
    /\ pc = "drain"
    /\ Draining(active_agents)
    /\ wake' = Min(now + PollWait, timings.run + MaxPolls * PollWait)
    /\ pc' = "drain_sleep"
    /\ UNCHANGED <<parameters, error, built, now, space, population, population_lock,
                   freeze, culmination, positions, stack_depth, start_barrier, timings,
                   non_agents_threads, cursor, early_stop, start_running,
                   simulation_duration, i, active_agents, result, hist>>

\* Lab.py:96
DrainRecount ==
    /\ pc = "drain_sleep"
    /\ now >= wake
    /\ active_agents' = ActiveCount - non_agents_threads
    /\ pc' = "drain"
    /\ UNCHANGED <<parameters, error, built, now, space, population, population_lock,
                   freeze, culmination, positions, stack_depth, start_barrier, timings,
                   non_agents_threads, cursor, early_stop, start_running,
                   simulation_duration, i, wake, result, hist>>

\* the length of the stop phase in place of the clock
StopTimingOfPhase(c) == c - timings.run

\* Lab.py:98  timings["stop"] = universe.culmination
StopTiming(c) == c

\* Lab.py:97-98
Culminate ==
    /\ pc = "drain"
    /\ ~Draining(active_agents)
    /\ culmination' = now
    /\ timings' = [timings EXCEPT !.stop = StopTiming(culmination')]
    /\ pc' = "return"
    /\ UNCHANGED <<parameters, error, built, now, wake, space, population, population_lock,
                   freeze, positions, stack_depth, start_barrier, non_agents_threads,
                   cursor, early_stop, start_running, simulation_duration, i,
                   active_agents, result, hist>>

\* Lab.py:105  the keys of the returned dict; their values are parameters, timings
\* and the universe themselves
ResultKeys == {"parameters", "timings", "universe"}

Return ==
    /\ pc = "return"
    /\ result' = ResultKeys
    /\ pc' = "done"
    /\ UNCHANGED <<parameters, error, built, now, space, population, population_lock,
                   freeze, culmination, positions, stack_depth, start_barrier, timings,
                   non_agents_threads, cursor, early_stop, start_running,
                   simulation_duration, i, wake, active_agents, hist>>

\* ---------------------------------------------------------------- agents
AgentVars == <<parameters, pc, error, built, now, freeze, culmination, positions,
               stack_depth, timings, non_agents_threads, cursor, early_stop,
               start_running, simulation_duration, i, wake, active_agents, result,
               hist>>

\* Agent.run, first step of an initial agent: start_barrier.wait(). The arrival that
\* completes the party releases every waiting agent.
ArriveAtBarrier(a) ==
    /\ population[a].st = "STARTED"
    /\ population[a].gated
    /\ IF start_barrier.n_waiting + 1 = start_barrier.parties
       THEN /\ population' =
                 [b \in 1 .. Len(population) |->
                    IF b = a \/ population[b].st = "WAITING_AT_BARRIER"
                    THEN [population[b] EXCEPT !.st = "RUNNING"]
                    ELSE population[b]]
            /\ start_barrier' = [start_barrier EXCEPT !.n_waiting = 0]
       ELSE /\ population' = [population EXCEPT ![a].st = "WAITING_AT_BARRIER"]
            /\ start_barrier' =
                 [start_barrier EXCEPT !.n_waiting = start_barrier.n_waiting + 1]
    /\ UNCHANGED <<AgentVars, space, population_lock>>

\* Agent.run: the poll of universe.freeze finds it unset and a round begins
BeginRound(a) ==
    /\ population[a].st = "RUNNING"
    /\ ~freeze
    /\ population' = [population EXCEPT ![a].st = "IN_ROUND"]
    /\ UNCHANGED <<AgentVars, space, population_lock, start_barrier>>

\* Agent.run: the round ends and the agent is back at its poll
EndRound(a) ==
    /\ population[a].st = "IN_ROUND"
    /\ population' = [population EXCEPT ![a].st = "RUNNING"]
    /\ UNCHANGED <<AgentVars, space, population_lock, start_barrier>>

\* Agent.run: death_date = universe.get_time(), then the thread ends
Terminate(a) ==
    population' = [population EXCEPT ![a].st = "TERMINATED", ![a].death_date = now]

\* natural death, or an error of the round logic
Die(a) ==
    /\ population[a].st = "IN_ROUND"
    /\ Terminate(a)
    /\ UNCHANGED <<AgentVars, space, population_lock, start_barrier>>

\* the poll of universe.freeze finds it set
ObserveFreeze(a) ==
    /\ population[a].st = "RUNNING"
    /\ freeze
    /\ Terminate(a)
    /\ UNCHANGED <<AgentVars, space, population_lock, start_barrier>>

\* ------------------------------------------- the Lab's other passes over population
\* Lab.py:159-160  _stop_population(universe) on the universe of a returned experiment
BeginStop ==
    /\ pc = "done"
    /\ population_lock = "free"
    /\ population_lock' = "controller"
    /\ cursor' = 0
    /\ pc' = "stopping"
    /\ UNCHANGED <<parameters, error, built, now, space, population, freeze,
                   culmination, positions, stack_depth, start_barrier, timings,
                   non_agents_threads, early_stop, start_running, simulation_duration,
                   i, wake, active_agents, result, hist>>

\* Lab.py:161-167  agent.stop.set() for the next agent of population.values()
StopAgent ==
    /\ pc = "stopping"
    /\ cursor < Len(population)
    /\ population' = [population EXCEPT ![cursor + 1].stop = TRUE]
    /\ cursor' = cursor + 1
    /\ UNCHANGED <<parameters, pc, error, built, now, space, population_lock, freeze,
                   culmination, positions, stack_depth, start_barrier, timings,
                   non_agents_threads, early_stop, start_running, simulation_duration,
                   i, wake, active_agents, result, hist>>

\* Lab.py:160  the with block ends
EndStop ==
    /\ pc = "stopping"
    /\ cursor = Len(population)
    /\ population_lock' = Unlock(population_lock)
    /\ pc' = "stopped"
    /\ UNCHANGED <<parameters, error, built, now, space, population, freeze,
                   culmination, positions, stack_depth, start_barrier, timings,
                   non_agents_threads, cursor, early_stop, start_running,
                   simulation_duration, i, wake, active_agents, result, hist>>

\* Lab.py:170-175  gather_data(simulation) on the returned result; the loop over
\* simulation["universe"].population.items() starts with no lock taken
BeginGatherData ==
    /\ pc = "done"
    /\ result = ResultKeys
    /\ cursor' = 0
    /\ pc' = "agents_statistics"
    /\ UNCHANGED <<parameters, error, built, now, space, population, population_lock,
                   freeze, culmination, positions, stack_depth, start_barrier, timings,
                   non_agents_threads, early_stop, start_running, simulation_duration,
                   i, wake, active_agents, result, hist>>

\* Lab.py:175-181  agents_statistics.append(agent.get_data()) for the next agent
AppendStatistics ==
    /\ pc = "agents_statistics"
    /\ cursor < Len(population)
    /\ cursor' = cursor + 1
    /\ UNCHANGED <<parameters, pc, error, built, now, space, population,
                   population_lock, freeze, culmination, positions, stack_depth,
                   start_barrier, timings, non_agents_threads, early_stop,
                   start_running, simulation_duration, i, wake, active_agents, result,
                   hist>>

\* Lab.py:183-213  the statistics are computed and the second loop over
\* population.items() starts, again with no lock taken
BeginTimelines ==
    /\ pc = "agents_statistics"
    /\ cursor = Len(population)
    /\ cursor' = 0
    /\ pc' = "timelines"
    /\ UNCHANGED <<parameters, error, built, now, space, population, population_lock,
                   freeze, culmination, positions, stack_depth, start_barrier, timings,
                   non_agents_threads, early_stop, start_running, simulation_duration,
                   i, wake, active_agents, result, hist>>

\* Lab.py:213-219  pass, for the next agent
PassTimeline ==
    /\ pc = "timelines"
    /\ cursor < Len(population)
    /\ cursor' = cursor + 1
    /\ UNCHANGED <<parameters, pc, error, built, now, space, population,
                   population_lock, freeze, culmination, positions, stack_depth,
                   start_barrier, timings, non_agents_threads, early_stop,
                   start_running, simulation_duration, i, wake, active_agents, result,
                   hist>>

\* Lab.py:221-226
EndGatherData ==
    /\ pc = "timelines"
    /\ cursor = Len(population)
    /\ pc' = "gathered"
    /\ UNCHANGED <<parameters, error, built, now, space, population, population_lock,
                   freeze, culmination, positions, stack_depth, start_barrier, timings,
                   non_agents_threads, cursor, early_stop, start_running,
                   simulation_duration, i, wake, active_agents, result, hist>>


\* a round's outcome is a birth: the child registers, is not barrier-gated and
\* runs at once
Reproduce(a) ==
    /\ population[a].st = "IN_ROUND"
    /\ \E c \in DOMAIN space :
          /\ ~space[c]
          /\ Register(NewAgent(population[a].generation + 1, FALSE, "RUNNING"), c)
    /\ UNCHANGED <<AgentVars, population_lock, start_barrier>>

Next ==
    \/ CheckConfiguration
    \/ CreateUniverse
    \/ GeneratePosition
    \/ CreateBarrier
    \/ InvokeAgent
    \/ AssertUnique
    \/ BeginStart
    \/ StartAgent
    \/ EndStart
    \/ BeginRun
    \/ EndOfTicks
    \/ EarlyStop
    \/ TickSleep
    \/ Elapse
    \/ RecordRun
    \/ SignalFreeze
    \/ DrainWait
    \/ DrainRecount
    \/ Culminate
    \/ Return
    \/ \E a \in 1 .. Len(population) : ArriveAtBarrier(a)
    \/ \E a \in 1 .. Len(population) : BeginRound(a)
    \/ \E a \in 1 .. Len(population) : EndRound(a)
    \/ \E a \in 1 .. Len(population) : Die(a)
    \/ \E a \in 1 .. Len(population) : ObserveFreeze(a)
    \/ \E a \in 1 .. Len(population) : Reproduce(a)

Spec == Init /\ [][Next]_vars

\* experiment up to Lab.py:58
NextPlace ==
    \/ CheckConfiguration
    \/ CreateUniverse
    \/ GeneratePosition
    \/ CreateBarrier
    \/ InvokeAgent
    \/ AssertUnique

SpecPlace == InitPlace /\ [][NextPlace]_vars

\* experiment followed by the passes the Lab makes over the population it returned
NextAnalysis ==
    \/ Next
    \/ BeginStop
    \/ StopAgent
    \/ EndStop
    \/ BeginGatherData
    \/ AppendStatistics
    \/ BeginTimelines
    \/ PassTimeline
    \/ EndGatherData

SpecAnalysis == Init /\ [][NextAnalysis]_vars

\* the steps of the thread that called experiment, and the clock it sleeps on
Controller ==
    \/ CheckConfiguration
    \/ CreateUniverse
    \/ GeneratePosition
    \/ CreateBarrier
    \/ InvokeAgent
    \/ AssertUnique
    \/ BeginStart
    \/ StartAgent
    \/ EndStart
    \/ BeginRun
    \/ EndOfTicks
    \/ EarlyStop
    \/ TickSleep
    \/ Elapse
    \/ RecordRun
    \/ SignalFreeze
    \/ DrainWait
    \/ DrainRecount
    \/ Culminate
    \/ Return

\* Every thread that can run does run (the controller and, at the barrier and at
\* the poll of freeze, each agent), and no round lasts forever: an agent in a round
\* ends the round or dies.
Fairness ==
    /\ WF_vars(Controller)
    /\ \A a \in 1 .. MaxWidth :
          /\ WF_vars(a <= Len(population) /\ ArriveAtBarrier(a))
          /\ WF_vars(a <= Len(population) /\ ObserveFreeze(a))
          /\ WF_vars(a <= Len(population) /\ (EndRound(a) \/ Die(a)))

\* calls with budgets of at most one second: the barrier and the drain, which the
\* fair behaviours are checked for, come before and after the run phase
InitFair == parameters \in Arguments({1}, 1 .. MaxWidth, 0 .. 1) /\ Start

SpecFair == InitFair /\ [][Next]_vars /\ Fairness

\* ================================================================ properties
Cohort == 1 .. parameters.initial_population_count

TooMany == parameters.initial_population_count > parameters.height * parameters.width

\* C1: a call with initial_population_count > height * width raises at the
\* assertion and nothing else ever happens: no Universe is constructed, no Agent is
\* created or registered, and no thread is started.
C1_FailsBeforeAnySideEffect ==
    TooMany =>
        /\ pc \in {"experiment", "raised"}
        /\ pc = "raised" => error = "AssertionError"
        /\ ~built
        /\ Len(population) = 0
        /\ Len(positions) = 0
        /\ start_barrier.parties = None
        /\ ActiveCount = MainThreads
        /\ result = {}

C1_Witness ==
    /\ TooMany
    /\ pc = "raised"
    /\ error = "AssertionError"

\* C2: whatever is drawn, the positions generated are pairwise distinct, and once
\* every initial agent is constructed exactly initial_population_count cells of
\* universe.space are occupied, so the assertion of Lab.py:55 never fails.
C2_PositionsUnique ==
    /\ \A j, k \in 1 .. Len(positions) : j # k => positions[j] # positions[k]
    /\ (pc = "invoke" /\ Len(population) = Len(positions)) \/ pc = "start"
          => Occupied = parameters.initial_population_count
    /\ ~TooMany => error # "AssertionError"

C2_Witness ==
    /\ pc = "start"
    /\ parameters.height > 1
    /\ parameters.width > 1
    /\ parameters.initial_population_count = 3
    /\ Occupied = 3

\* C3: an agent of the initial generation is in a round only when all
\* initial_population_count agents have been constructed, all have been started and
\* all have arrived at the start barrier.
CohortArrived ==
    /\ Len(population) >= parameters.initial_population_count
    /\ \A b \in Cohort : population[b].st \notin {"CREATED", "STARTED"}

C3_BarrierBeforeFirstRound ==
    \A a \in 1 .. Len(population) :
        (population[a].generation = 0 /\ population[a].st = "IN_ROUND") => CohortArrived

C3_Witness ==
    /\ parameters.initial_population_count = 2
    /\ Len(population) = 2
    /\ population[1].st = "IN_ROUND"
    /\ population[2].st = "RUNNING"
    /\ pc = "starting"

\* C10: _generate_position holds one frame of the call stack however many draws
\* are rejected.
C10_OneFrame == stack_depth <= 1

\* the controller is past universe.freeze.set()
AfterSignal == pc \in {"drain", "drain_sleep", "return", "done"}

Agents == 1 .. Len(population)

Threads == Cardinality(AliveAgents)

EndOfBudget == start_running + simulation_duration * Second

\* C4: when every agent has died before the simulation duration has elapsed, the
\* run phase ended before it elapsed and the returned dict says the run was
\* stopped early.
C4_EarlyStopReported ==
    (/\ pc = "done"
     /\ simulation_duration >= 1
     /\ Len(population) >= 1
     /\ \A a \in Agents : /\ population[a].st = "TERMINATED"
                          /\ population[a].death_date < EndOfBudget)
    => /\ timings.run < EndOfBudget
       /\ "early_stop" \in result

\* C5: in the run phase no sleep is negative, and tick k ends exactly k seconds
\* after start_running whenever it began no later than that; so a tick that began
\* late does not delay the ticks after it, and a run phase of D ticks whose last
\* tick began in time lasts exactly D seconds.
C5_NoDrift ==
    /\ hist.tick >= 1 =>
          /\ hist.slept >= 0
          /\ hist.began <= hist.tick * Second => hist.ended = hist.tick * Second
          /\ hist.began > hist.tick * Second => hist.ended = hist.began
    /\ (/\ pc = "run_end"
        /\ ~early_stop
        /\ simulation_duration >= 1
        /\ hist.began <= simulation_duration * Second)
       => /\ hist.tick = simulation_duration
          /\ now = EndOfBudget

\* the first tick overran, the second began late and still ended on time
C5_Witness ==
    /\ hist.tick = 2
    /\ hist.began > Second
    /\ hist.slept > 0
    /\ hist.slept < Second
    /\ pc = "run_end"
    /\ now = start_running + 2 * Second

C7_CulminationAfterDrain ==
    /\ [](/\ culmination # None <=> pc \in {"return", "done"}
          /\ culmination # None =>
                /\ ActiveCount = non_agents_threads
                /\ AliveAgents = {}
                /\ \A a \in Agents : /\ population[a].death_date # None
                                     /\ population[a].death_date <= culmination
          /\ pc = "done" => AliveAgents = {})
    /\ [][culmination # None => culmination' = culmination]_vars

\* two agents, one of which ended during the drain
C7_Witness ==
    /\ pc = "done"
    /\ Len(population) >= 2
    /\ \E a \in Agents : population[a].death_date > timings.run
    /\ culmination > timings.run

\* C8: universe.freeze is unset until the run phase has ended and set from the
\* controller's signal on; only that step of the controller sets it, nothing
\* unsets it, and setting it again changes nothing.
C8_FreezeOneShot ==
    /\ [](/\ freeze => AfterSignal /\ timings.run # None
          /\ AfterSignal => freeze
          /\ EventSet(EventSet(freeze)) = EventSet(freeze))
    /\ [][freeze => freeze']_vars
    /\ [][~freeze /\ freeze' => pc = "stop" /\ pc' = "drain"]_vars

\* an agent has seen the signal and ended
C8_Witness ==
    /\ freeze
    /\ pc = "done"
    /\ \E a \in Agents : population[a].death_date >= timings.run

\* C9: in the dict experiment returns the timings are non-negative and in the
\* order of the phases, and timings["stop"] is universe.culmination.
C9_TimingsOrdered ==
    pc = "done" =>
        /\ "timings" \in result
        /\ 0 <= timings.init_universe
        /\ timings.init_universe <= timings.invoke_initial_population
        /\ timings.invoke_initial_population <= timings.start_initial_population
        /\ timings.start_initial_population <= timings.run
        /\ timings.run <= timings.stop
        /\ timings.stop = culmination

\* a run in which time passed in the set-up, in the run phase and in the drain
C9_Witness ==
    /\ pc = "done"
    /\ timings.invoke_initial_population > 0
    /\ timings.run > timings.start_initial_population
    /\ timings.stop > timings.run

\* the controller's step out of the drain loop
LeavesDrain == pc \in {"drain", "drain_sleep"} /\ pc' \notin {"drain", "drain_sleep"}

\* C11: when no round lasts forever and threads are scheduled fairly, a controller
\* that has ended the run phase signals freeze, sees the agent count reach zero and
\* returns the result; and it leaves the drain loop only with no agent thread
\* running, however long that takes.
C11_DrainEnds ==
    /\ (pc = "stop") ~> (pc = "done" /\ result = ResultKeys)
    /\ [](pc \in {"return", "done"} => AliveAgents = {})
    /\ [][LeavesDrain => active_agents <= 0 /\ AliveAgents = {}]_vars

\* the drain polled past the followed clock before the last agent ended
C11_Witness ==
    /\ pc = "done"
    /\ \E a \in Agents : population[a].death_date = timings.run + MaxPolls * PollWait
    /\ culmination = timings.run + MaxPolls * PollWait

\* the ticks the budget allows: the total duration less the whole seconds on the
\* clock when the run phase starts, at most the simulation duration, at least none
TicksAllowed ==
    Max(0, Min(parameters.max_total_duration - (start_running \div Second),
               parameters.max_simulation_duration))

\* C12: a run phase that is not stopped early has run exactly
\* max(0, min(max_total_duration - e, max_simulation_duration)) ticks, e the whole
\* seconds elapsed at its start; when that number is zero it has not slept at all.
C12_TickCount ==
    /\ pc = "tick" => hist.tick <= TicksAllowed
    /\ pc = "run_end" /\ ~early_stop =>
          /\ hist.tick = TicksAllowed
          /\ TicksAllowed = 0 => now = start_running /\ hist.slept = None

\* a second was spent before the run phase and shortens it to one tick
C12_Witness ==
    /\ pc = "run_end"
    /\ ~early_stop
    /\ start_running \div Second = 1
    /\ parameters.max_simulation_duration = 2
    /\ hist.tick = 1

\* the Lab is in a loop over universe.population, with an agent still to visit
Iterating ==
    /\ pc \in {"starting", "stopping", "agents_statistics", "timelines"}
    /\ cursor < Len(population)

\* C13: whenever the Lab iterates over universe.population (to start the agents, to
\* set their stop flags, to gather their statistics and timelines) it holds
\* population_lock, from the first element to the last.
C13_IterationsLocked == Iterating => population_lock = "controller"

\* the controller is inside time.sleep
Sleeping == pc \in {"tick", "drain_sleep"} /\ now < wake

\* C14: the controller never holds population_lock while it sleeps, in a tick of the
\* run phase or between two polls of the drain; it holds the lock only inside the
\* loop that starts the agents.
C14_NoSleepUnderLock ==
    /\ Sleeping => population_lock # "controller"
    /\ population_lock = "controller" => pc = "starting"

\* an agent registered its child while the controller slept between two polls
C14_Witness ==
    /\ pc = "drain_sleep"
    /\ now < wake
    /\ population_lock = "free"
    /\ \E a \in Agents : ~population[a].gated /\ population[a].st = "RUNNING"

\* an initial agent that has left start_barrier.wait()
Passed(agent) ==
    agent.gated /\ agent.st \notin {"CREATED", "STARTED", "WAITING_AT_BARRIER"}

\* a step in which some agent leaves the barrier
BarrierReleases ==
    \E a \in Agents : ~Passed(population[a]) /\ Passed(population'[a])

\* the agents whose start barrier is the experiment's
Gated == {a \in Agents : population[a].gated}

\* C15: the start barrier is released exactly once, for the whole initial population
\* together; the agents started are as many as the barrier's parties; and under fair
\* scheduling every initial agent that was started leaves the barrier, whether or
\* not the controller still holds population_lock.
C15_BarrierReleasedOnce ==
    /\ [][BarrierReleases =>
            /\ \A b \in Cohort : ~Passed(population[b])
            /\ \A b \in Cohort : Passed(population'[b])]_vars
    /\ [](timings.start_initial_population # None =>
            /\ Cardinality(Gated) = start_barrier.parties
            /\ \A b \in Gated : population[b].st # "CREATED")
    /\ \A a \in 1 .. MaxWidth :
          (a <= Len(population) /\ population[a].gated /\ population[a].st = "STARTED")
             ~> (a <= Len(population) /\ Passed(population[a]))

\* both initial agents are past the barrier while the start loop still holds the lock
C15_Witness ==
    /\ pc = "starting"
    /\ population_lock = "controller"
    /\ parameters.initial_population_count = 2
    /\ Len(population) = 2
    /\ \A b \in Cohort : Passed(population[b])

\* C16: with initial_population_count <= height * width the generation of positions
\* never fails, whatever is drawn: it goes on to the barrier with exactly
\* initial_population_count positions, the full grid included; only a population
\* too large for the grid makes the experiment raise, as a configuration failure.
C16_GenerationSucceeds ==
    /\ pc = "raised" => TooMany /\ error = "AssertionError"
    /\ pc = "invoke" => Len(positions) = parameters.initial_population_count

\* the step that captures the baseline
CapturesBaseline == non_agents_threads' # non_agents_threads

\* C17: the baseline is captured when every initial agent is constructed and none is
\* started, so from then on the thread count less the baseline is the number of
\* agent threads alive; the run phase is stopped early only with no agent thread
\* alive; and a tick sleeps only after its check found one alive.
C17_BaselineBeforeStart ==
    /\ [][CapturesBaseline =>
            /\ Len(population) = parameters.initial_population_count
            /\ \A a \in Agents : population[a].st = "CREATED"
            /\ non_agents_threads' = MainThreads]_vars
    /\ [](non_agents_threads # None =>
            ActiveCount - non_agents_threads = Threads)
    /\ [](early_stop = TRUE => Threads = 0)
    /\ [][hist'.tick # hist.tick => Threads > 0]_vars

\* the agents and their children all died during the first tick's sleep
C17_Witness ==
    /\ pc = "run_end"
    /\ early_stop = TRUE
    /\ hist.tick = 1
    /\ Len(population) > parameters.initial_population_count
    /\ Threads = 0

\* the total budget on the universe's clock
BudgetEnd == parameters.max_total_duration * Second

\* C18: a run phase that starts within the total budget and in which no tick
\* overruns its one-second slot ends, on the universe's clock, at most
\* max_total_duration seconds after the clock's origin, and lasts at most
\* max_simulation_duration seconds.
C18_WithinBudget ==
    (pc = "stop" /\ ~hist.overran /\ start_running <= BudgetEnd) =>
        /\ timings.run <= BudgetEnd
        /\ timings.run - start_running <= parameters.max_simulation_duration * Second

====
